---- MODULE Spec2Model ----
(***************************************************************************)
(* Home Remodel Budget - Cloudflare Worker agent.                          *)
(*                                                                         *)
(* A model of one chat request: handleChat parses and validates the body,  *)
(* runAgentConversation drives the two-round exchange with the inference   *)
(* service, executeToolCall dispatches each tool call to the sandbox tools *)
(* (tools.ts), guarded by validateFileName and sanitizeCommitMessage.      *)
(*                                                                         *)
(* Text that the code inspects character by character (file names, commit  *)
(* messages, file contents) is a sequence of one-character strings; all    *)
(* other text is a string.  The suspension points of the code (await) are  *)
(* the boundaries of the actions.                                          *)
(***************************************************************************)
EXTENDS Integers, Sequences, FiniteSets, TLC

VARIABLES
    request,      \* the body of the chat request, until request.json() reads it
    pc,           \* position of the request: start, ai1, dispatch, ai2, done
    messages,     \* handleChat: the validated caller messages
    aiCalls,      \* invocations of env.AI.run, in order
    aiResult,     \* runAgentConversation: the first response
    started,      \* number of tool calls handed to executeToolCall
    inflight,     \* call index -> the sandbox operation it awaits
    toolResultMessages, \* runAgentConversation: tool-role result messages
    followUpResult, \* runAgentConversation: the second response
    sandboxLog,   \* operations issued to the sandbox, in order
    failures,     \* the tool calls one of whose sandbox operations threw
    aiFailed,     \* the round whose inference call rejected, or 0
    httpResponse, \* the Response returned by handleChat, or NoResponse
    guardOp,      \* the guard function under test, or "none"
    nameInput,    \* validateFileName: its argument
    nameValid,    \* validateFileName: its result, once it has returned
    messageInput, \* sanitizeCommitMessage: its argument
    messageSanitized, \* sanitizeCommitMessage: its result, and the result of
                  \* sanitizing that result again
    route,        \* fetch: method and path of the request it is given
    routeResponse, \* fetch: the Response it returns, or NoResponse
    facadeSteps,  \* a facade operation called on its own: what it did so far
    sessions,     \* concurrent requests: the tool call each one is executing
    sandbox       \* the working directory and repository of 'budget-agent'

\* the variables of one chat request
requestVars == <<request, pc, messages, aiCalls, aiResult, started, inflight,
                 toolResultMessages, followUpResult, sandboxLog, failures,
                 aiFailed, httpResponse>>

\* the variables of the guard functions called on their own
guardVars == <<guardOp, nameInput, nameValid, messageInput, messageSanitized>>

\* the variables of the worker's router
routeVars == <<route, routeResponse>>

\* the variables of the concurrent requests and their sandbox
sessionVars == <<sessions, sandbox>>

\* the variables a single chat request leaves alone
unitVars == <<guardVars, routeVars, facadeSteps, sessionVars>>

vars == <<requestVars, unitVars>>

(***************************************************************************)
(* Bounds                                                                  *)
(***************************************************************************)
MaxCalls == 2      \* longest tool_calls batch of a model response
MaxMsgs == 1       \* longest 'messages' array of a request body
MaxElems == 3      \* longest 'messages' array handed to validateRequestBody alone
MaxNameLen == 2    \* longest file name spelled from the name alphabet
MaxMessageLen == 3 \* longest commit message spelled from the message alphabet
MaxShortfall == 2  \* how far the filling of a long message stays below the limit
MaxSegments == 2   \* most segments of the path of a request to the worker
MaxBatch == 2      \* most tool calls of one of the concurrent requests

(***************************************************************************)
(* Text helpers                                                            *)
(***************************************************************************)
RECURSIVE Str(_)
\* the string spelled by a sequence of characters (template interpolation)
Str(s) ==
    IF s = <<>> THEN ""
    ELSE IF Len(s) = 1 THEN s[1]
    ELSE Str(SubSeq(s, 1, Len(s) \div 2))
         \o Str(SubSeq(s, Len(s) \div 2 + 1, Len(s)))

\* String.prototype.includes
includes(s, sub) ==
    \E i \in 1..(Len(s) - Len(sub) + 1) : SubSeq(s, i, i + Len(sub) - 1) = sub

\* String.prototype.includes in the place of Array.prototype.includes: x is
\* looked up inside the elements
arrayIncludes_substring(arr, x) == \E i \in 1..Len(arr) : includes(arr[i], x)

\* Array.prototype.includes
arrayIncludes(arr, x) == \E i \in 1..Len(arr) : arr[i] = x

Min(a, b) == IF a <= b THEN a ELSE b

\* a slice that keeps one unit too many
slice0_inclusive(s, n) == SubSeq(s, 1, Min(Len(s), n + 1))

\* String.prototype.slice(0, n)
slice0(s, n) == SubSeq(s, 1, Min(Len(s), n))

\* the characters String.prototype.trim removes (those the model uses)
WhiteSpace == {" ", "\t", "\n"}

\* the positions of s that hold no white space
inked(s) == {i \in 1..Len(s) : s[i] \notin WhiteSpace}

\* s from its first character that is no white space
trimStart(s) ==
    IF inked(s) = {} THEN <<>>
    ELSE SubSeq(s, CHOOSE i \in inked(s) : \A j \in inked(s) : i <= j, Len(s))

\* s up to its last character that is no white space
trimEnd(s) ==
    IF inked(s) = {} THEN <<>>
    ELSE SubSeq(s, 1, CHOOSE i \in inked(s) : \A j \in inked(s) : j <= i)

\* String.prototype.trim
trim(s) == trimEnd(trimStart(s))

(***************************************************************************)
(* tools.ts: Path/Input Guard                                              *)
(***************************************************************************)
Code_js == <<"C", "o", "d", "e", ".", "j", "s">>
index_html == <<"i", "n", "d", "e", "x", ".", "h", "t", "m", "l">>
appsscript_json ==
    <<"a", "p", "p", "s", "s", "c", "r", "i", "p", "t", ".", "j", "s", "o", "n">>

ALLOWED_FILES == <<Code_js, index_html, appsscript_json>>

\* ALLOWED_FILES.join(', ')
ALLOWED_FILES_joined == "Code.js, index.html, appsscript.json"

\* a guard that rejects the escape characters but forgets the allow-list
validateFileName_noAllowList(fileName) ==
    ~(\/ includes(fileName, <<".", ".">>)
      \/ includes(fileName, <<"/">>)
      \/ includes(fileName, <<"\\">>))

\* a guard that looks up the base name: what follows the last separator
validateFileName_baseName(fileName) ==
    \E i \in 1..Len(ALLOWED_FILES) :
        LET allowed == ALLOWED_FILES[i]
            rest == Len(fileName) - Len(allowed)
        IN  /\ rest >= 0
            /\ SubSeq(fileName, rest + 1, Len(fileName)) = allowed
            /\ rest > 0 => fileName[rest] \in {"/", "\\"}

validateFileName(fileName) ==
    IF \/ includes(fileName, <<".", ".">>)
       \/ includes(fileName, <<"/">>)
       \/ includes(fileName, <<"\\">>)
    THEN FALSE
    ELSE arrayIncludes(ALLOWED_FILES, fileName)

MAX_COMMIT_MESSAGE == 500

DEFAULT_COMMIT_MESSAGE ==
    <<"U", "p", "d", "a", "t", "e", " ", "A", "p", "p", "s", " ",
      "S", "c", "r", "i", "p", "t", " ", "f", "i", "l", "e", "s">>

\* a pattern that strips the opening bracket only
IsNotAngle_onlyOpen(c) == c # "<"

IsNotAngle(c) == c \notin {"<", ">"}

\* sanitizing without the fallback to the default message
sanitizeCommitMessage_noDefault(message) ==
    trim(SelectSeq(slice0(message, MAX_COMMIT_MESSAGE), IsNotAngle))

\* sanitizing that trims before it strips the brackets
sanitizeCommitMessage_trimFirst(message) ==
    LET sanitized ==
            SelectSeq(trim(slice0(message, MAX_COMMIT_MESSAGE)), IsNotAngle)
    IN  IF sanitized = <<>> THEN DEFAULT_COMMIT_MESSAGE ELSE sanitized

\* sanitizing that limits the length after it has stripped and trimmed
sanitizeCommitMessage_sliceLast(message) ==
    LET sanitized ==
            slice0(trim(SelectSeq(message, IsNotAngle)), MAX_COMMIT_MESSAGE)
    IN  IF sanitized = <<>> THEN DEFAULT_COMMIT_MESSAGE ELSE sanitized

sanitizeCommitMessage(message) ==
    LET sanitized ==
            trim(SelectSeq(slice0(message, MAX_COMMIT_MESSAGE), IsNotAngle))
    IN  IF sanitized = <<>> THEN DEFAULT_COMMIT_MESSAGE ELSE sanitized

(***************************************************************************)
(* JavaScript values, as far as the code inspects them                     *)
(***************************************************************************)
Undefined == [t |-> "undefined", s |-> <<>>]
StringV(s) == [t |-> "string", s |-> s]
NumberV == [t |-> "number", s |-> <<>>]

\* a parsed argument value: t is object, array, null, number or string; the
\* three properties the dispatcher reads are Undefined where absent
ArgsValue(t, fileName, content, message) ==
    [t |-> t, fileName |-> fileName, content |-> content, message |-> message]

EmptyObject == ArgsValue("object", Undefined, Undefined, Undefined)

\* the typeof operator
typeof(v) == IF v.t \in {"object", "array", "null"} THEN "object" ELSE v.t

\* error instanceof Error ? error.message : 'Unknown error'
Error(message) == [isError |-> TRUE, message |-> message]
errorMessage(error) == IF error.isError THEN error.message ELSE "Unknown error"

(***************************************************************************)
(* The argument payloads of the tool calls and what JSON.parse makes of    *)
(* them                                                                    *)
(***************************************************************************)
ArgsEmpty == ""
ArgsObject == "{}"
ArgsBroken == "{\"fileName\": "
ArgsNull == "null"
ArgsArray == "[\"Code.js\"]"
ArgsReadCode == "{\"fileName\":\"Code.js\"}"
ArgsReadTraversal == "{\"fileName\":\"../Code.js\"}"
ArgsReadEnv == "{\"fileName\":\".env\"}"
ArgsReadNumber == "{\"fileName\":42}"
ArgsWriteIndex == "{\"fileName\":\"index.html\",\"content\":\"<p>\"}"
ArgsWriteSlash == "{\"fileName\":\"src/Code.js\",\"content\":\"x\"}"
ArgsWriteNumber == "{\"fileName\":\"Code.js\",\"content\":1}"
ArgsCommit == "{\"message\":\" fix <b> \"}"
ArgsCommitNumber == "{\"message\":7}"

JSONParse(text) ==
    CASE text = ArgsObject ->
            [threw |-> FALSE, value |-> EmptyObject]
      [] text = ArgsNull ->
            [threw |-> FALSE,
             value |-> ArgsValue("null", Undefined, Undefined, Undefined)]
      [] text = ArgsArray ->
            [threw |-> FALSE,
             value |-> ArgsValue("array", Undefined, Undefined, Undefined)]
      [] text = ArgsReadCode ->
            [threw |-> FALSE,
             value |-> ArgsValue("object", StringV(Code_js), Undefined, Undefined)]
      [] text = ArgsReadTraversal ->
            [threw |-> FALSE,
             value |-> ArgsValue("object", StringV(<<".", ".", "/">> \o Code_js),
                                 Undefined, Undefined)]
      [] text = ArgsReadEnv ->
            [threw |-> FALSE,
             value |-> ArgsValue("object", StringV(<<".", "e", "n", "v">>),
                                 Undefined, Undefined)]
      [] text = ArgsReadNumber ->
            [threw |-> FALSE,
             value |-> ArgsValue("object", NumberV, Undefined, Undefined)]
      [] text = ArgsWriteIndex ->
            [threw |-> FALSE,
             value |-> ArgsValue("object", StringV(index_html),
                                 StringV(<<"<", "p", ">">>), Undefined)]
      [] text = ArgsWriteSlash ->
            [threw |-> FALSE,
             value |-> ArgsValue("object", StringV(<<"s", "r", "c", "/">> \o Code_js),
                                 StringV(<<"x">>), Undefined)]
      [] text = ArgsWriteNumber ->
            [threw |-> FALSE,
             value |-> ArgsValue("object", StringV(Code_js), NumberV, Undefined)]
      [] text = ArgsCommit ->
            [threw |-> FALSE,
             value |-> ArgsValue("object", Undefined, Undefined,
                                 StringV(<<" ", "f", "i", "x", " ", "<", "b", ">", " ">>))]
      [] text = ArgsCommitNumber ->
            [threw |-> FALSE,
             value |-> ArgsValue("object", Undefined, Undefined, NumberV)]
      [] OTHER ->  \* not JSON: SyntaxError
            [threw |-> TRUE, value |-> EmptyObject]

\* args = JSON.parse(toolCall.function.arguments || '{}'), a non-object or
\* null replaced by {}; threw when JSON.parse throws
parseArguments(toolCall) ==
    LET parsed == JSONParse(IF toolCall.function.arguments = ""
                            THEN "{}" ELSE toolCall.function.arguments)
    IN  IF parsed.threw THEN parsed
        ELSE IF typeof(parsed.value) # "object" \/ parsed.value.t = "null"
             THEN [threw |-> FALSE, value |-> EmptyObject]
             ELSE parsed

ToolCall(id, name, arguments) ==
    [id |-> id, function |-> [name |-> name, arguments |-> arguments]]

\* the names executeToolCall dispatches on
DispatcherNames ==
    {"clone_repository", "read_file", "write_file", "list_files",
     "commit_changes", "push_changes", "get_status"}

\* the tool calls a model response is made of
ToolCalls ==
    { ToolCall("call_1", "clone_repository", ArgsNull),
      ToolCall("call_2", "read_file", ArgsReadCode),
      ToolCall("call_1", "read_file", ArgsReadTraversal),
      ToolCall("call_2", "read_file", ArgsReadEnv),
      ToolCall("call_1", "read_file", ArgsReadNumber),
      ToolCall("call_2", "read_file", ArgsBroken),
      ToolCall("call_1", "write_file", ArgsWriteIndex),
      ToolCall("call_2", "write_file", ArgsWriteSlash),
      ToolCall("call_1", "write_file", ArgsWriteNumber),
      ToolCall("call_2", "list_files", ArgsArray),
      ToolCall("call_1", "commit_changes", ArgsCommit),
      ToolCall("call_2", "commit_changes", ArgsCommitNumber),
      ToolCall("call_1", "push_changes", ArgsEmpty),
      ToolCall("call_2", "get_status", ArgsObject),
      ToolCall("call_1", "delete_file", ArgsReadCode),
      ToolCall("call_2", "delete_file", ArgsBroken),
      ToolCall("call_1", "read_file", ArgsObject),
      ToolCall("call_2", "write_file", ArgsReadCode),
      ToolCall("call_1", "commit_changes", ArgsNull) }

(***************************************************************************)
(* Optional text: a property that may be absent (response, stdout, output, *)
(* tool_call_id, error)                                                    *)
(***************************************************************************)
Absent == [present |-> FALSE, text |-> ""]
Text(t) == [present |-> TRUE, text |-> t]

\* JavaScript truthiness of an optional text
truthy(o) == o.present /\ o.text # ""

(***************************************************************************)
(* The sandbox service: operations and their outcomes                      *)
(***************************************************************************)
SandboxOp(method, target, argv, data) ==
    [method |-> method, target |-> target, argv |-> argv, data |-> data]

SandboxError == Error("sandbox: container unavailable")

\* what an operation of the sandbox can answer: it throws, or it returns the
\* file content (readFile) or {stdout, output} (exec)
SandboxOutcomes(op) ==
    {[threw |-> TRUE, content |-> "", stdout |-> Absent, output |-> Absent]}
    \cup
    IF op.method = "readFile"
    THEN {[threw |-> FALSE, content |-> "function doGet() {}",
           stdout |-> Absent, output |-> Absent]}
    ELSE IF op.method = "exec"
    THEN {[threw |-> FALSE, content |-> "", stdout |-> Text("stdout text"),
           output |-> Absent],
          [threw |-> FALSE, content |-> "", stdout |-> Text(""),
           output |-> Text("output text")],
          [threw |-> FALSE, content |-> "", stdout |-> Absent,
           output |-> Absent]}
    ELSE {[threw |-> FALSE, content |-> "", stdout |-> Absent,
           output |-> Absent]}

(***************************************************************************)
(* tools.ts: Sandbox Operations Facade.  Each operation is a sequence of   *)
(* sandbox calls; Await names the call it suspends on and the stage it is  *)
(* in, Return its result, Throw the exception it raises.                   *)
(***************************************************************************)
NoOp == SandboxOp("", "", <<>>, <<>>)
Return(text) ==
    [kind |-> "return", text |-> text, stage |-> "", local |-> <<>>, op |-> NoOp]
Throw(error) ==
    [kind |-> "throw", text |-> errorMessage(error), stage |-> "",
     local |-> <<>>, op |-> NoOp]
\* local: the local variable the suspended operation uses when it resumes
\* (fileName of writeAppsScriptFile, sanitizedMessage of commitChanges)
Await(stage, local, op) ==
    [kind |-> "await", text |-> "", stage |-> stage, local |-> local, op |-> op]

\* gitConfig of handleChat, with the environment's token
GitToolsConfig ==
    [repoUrl |-> "https://github.com/jmbish04/home_remodel_budget",
     githubToken |-> "ghp_token"]

\* config.repoUrl.replace('https://github.com/', `https://${token}@github.com/`)
authenticatedUrl(config) ==
    "https://" \o config.githubToken \o "@github.com/jmbish04/home_remodel_budget"

SrcDir == "/workspace/repo/appsscript/src"

cloneRepository(config) ==
    Await("clone", <<>>, SandboxOp("gitCheckout", "/workspace/repo",
                             <<authenticatedUrl(config)>>, <<>>))

\* reading without the guard
readAppsScriptFile_unguarded(fileName) ==
    Await("read", fileName, SandboxOp("readFile", SrcDir \o "/" \o Str(fileName),
                            <<>>, <<>>))

readAppsScriptFile(fileName) ==
    IF ~validateFileName(fileName)
    THEN Throw(Error("Invalid file name: " \o Str(fileName)
                     \o ". Allowed files: " \o ALLOWED_FILES_joined))
    ELSE Await("read", fileName, SandboxOp("readFile", SrcDir \o "/" \o Str(fileName),
                                 <<>>, <<>>))

\* writing without the guard
writeAppsScriptFile_unguarded(fileName, content) ==
    Await("write", fileName, SandboxOp("writeFile", SrcDir \o "/" \o Str(fileName),
                             <<>>, content))

writeAppsScriptFile(fileName, content) ==
    IF ~validateFileName(fileName)
    THEN Throw(Error("Invalid file name: " \o Str(fileName)
                     \o ". Allowed files: " \o ALLOWED_FILES_joined))
    ELSE Await("write", fileName, SandboxOp("writeFile", SrcDir \o "/" \o Str(fileName),
                                  <<>>, content))

listAppsScriptFiles ==
    Await("list", <<>>, SandboxOp("exec", "ls", <<"-la", SrcDir>>, <<>>))

\* committing with the message as it was given
commitChanges_raw(message) ==
    Await("add", message,
          SandboxOp("exec", "git", <<"-C", "/workspace/repo", "add", ".">>,
                    <<>>))

\* commitChanges up to its first sandbox call: sanitize, then git add
commitChanges(message) ==
    Await("add", sanitizeCommitMessage(message),
          SandboxOp("exec", "git", <<"-C", "/workspace/repo", "add", ".">>,
                    <<>>))

\* pushChanges up to its first sandbox call: git remote set-url
pushChanges(config) ==
    Await("seturl", <<>>,
          SandboxOp("exec", "git",
                    <<"-C", "/workspace/repo", "remote", "set-url", "origin",
                      authenticatedUrl(config)>>, <<>>))

getGitStatus ==
    Await("status", <<>>,
          SandboxOp("exec", "git", <<"-C", "/workspace/repo", "status">>,
                    <<>>))

\* result.stdout || result.output || fallback
stdoutOr(result, fallback) ==
    IF truthy(result.stdout) THEN result.stdout.text
    ELSE IF truthy(result.output) THEN result.output.text
    ELSE fallback

\* the facade operation suspended in the given stage, resumed with the result
\* of the sandbox call it awaited; the message of git commit is op.data
resumeTool(stage, local, result) ==
    CASE stage = "clone" ->
            Return("Repository cloned successfully to /workspace/repo")
      [] stage = "read" -> Return(result.content)
      [] stage = "write" ->
            Return("File " \o Str(local) \o " updated successfully")
      [] stage = "list" -> Return(stdoutOr(result, "No files found"))
      [] stage = "add" ->
            Await("commit", local,
                  SandboxOp("exec", "git",
                            <<"-C", "/workspace/repo", "commit", "-m",
                              Str(local)>>, local))
      [] stage = "commit" -> Return(stdoutOr(result, "Changes committed"))
      [] stage = "seturl" ->
            Await("push", <<>>,
                  SandboxOp("exec", "git",
                            <<"-C", "/workspace/repo", "push", "origin",
                              "main">>, <<>>))
      [] stage = "push" ->
            Return("Changes pushed to GitHub. This will trigger the Apps Script deployment workflow.")
      [] stage = "status" -> Return(stdoutOr(result, "No changes"))

(***************************************************************************)
(* agent.ts: executeToolCall                                               *)
(***************************************************************************)
\* a default case that falls through to the last case of the switch
unknownTool_fallThrough(name) == getGitStatus

\* the default case of the switch
unknownTool(name) == Return("Unknown tool: " \o name)

\* the switch of executeToolCall, on the parsed arguments
\* a dispatcher that hands the arguments to the facade unchecked
dispatchTool_unchecked(toolCall, args) ==
    LET name == toolCall.function.name IN
    CASE name = "clone_repository" -> cloneRepository(GitToolsConfig)
      [] name = "read_file" -> readAppsScriptFile(args.fileName.s)
      [] name = "write_file" ->
            writeAppsScriptFile(args.fileName.s, args.content.s)
      [] name = "list_files" -> listAppsScriptFiles
      [] name = "commit_changes" -> commitChanges(args.message.s)
      [] name = "push_changes" -> pushChanges(GitToolsConfig)
      [] name = "get_status" -> getGitStatus
      [] OTHER -> unknownTool(name)

dispatchTool(toolCall, args) ==
    LET name == toolCall.function.name IN
    CASE name = "clone_repository" -> cloneRepository(GitToolsConfig)
      [] name = "read_file" ->
            IF typeof(args.fileName) # "string"
            THEN Return("Error: fileName must be a string")
            ELSE readAppsScriptFile(args.fileName.s)
      [] name = "write_file" ->
            IF typeof(args.fileName) # "string" \/ typeof(args.content) # "string"
            THEN Return("Error: fileName and content must be strings")
            ELSE writeAppsScriptFile(args.fileName.s, args.content.s)
      [] name = "list_files" -> listAppsScriptFiles
      [] name = "commit_changes" ->
            IF typeof(args.message) # "string"
            THEN Return("Error: message must be a string")
            ELSE commitChanges(args.message.s)
      [] name = "push_changes" -> pushChanges(GitToolsConfig)
      [] name = "get_status" -> getGitStatus
      [] OTHER -> unknownTool(name)

\* no catch clause: the exception leaves executeToolCall
catchToolError_rethrow(toolCall, step) == step

\* a catch clause that undoes the work of the request before it answers
catchToolError_rollback(toolCall, step) ==
    IF step.kind = "throw"
    THEN Await("status", <<>>,
               SandboxOp("exec", "git",
                         <<"-C", "/workspace/repo", "reset", "--hard",
                           "origin/main">>, <<>>))
    ELSE step

\* the catch clause around the switch: an exception becomes the result text
catchToolError(toolCall, step) ==
    IF step.kind = "throw"
    THEN Return("Error executing " \o toolCall.function.name \o ": " \o step.text)
    ELSE step

\* JSON.parse outside any try block: a SyntaxError leaves executeToolCall
executeToolCall_parseThrows(toolCall) ==
    LET parsed == parseArguments(toolCall) IN
    IF parsed.threw
    THEN Throw(Error("Unexpected end of JSON input"))
    ELSE catchToolError(toolCall, dispatchTool(toolCall, parsed.value))

\* executeToolCall from its entry to its first sandbox call or its return
executeToolCall(toolCall) ==
    LET parsed == parseArguments(toolCall) IN
    IF parsed.threw
    THEN Return("Error: Invalid arguments for tool " \o toolCall.function.name)
    ELSE catchToolError(toolCall, dispatchTool(toolCall, parsed.value))

\* the sandbox call awaited outside the try block
resumeToolCall_noCatch(toolCall, frame, outcome) ==
    IF outcome.threw THEN Throw(SandboxError)
    ELSE resumeTool(frame.stage, frame.local, outcome)

\* executeToolCall resumed at the sandbox call it awaits in the given stage:
\* the call threw, or it returned result
resumeToolCall(toolCall, frame, outcome) ==
    catchToolError(toolCall,
                   IF outcome.threw THEN Throw(SandboxError)
                   ELSE resumeTool(frame.stage, frame.local, outcome))

(***************************************************************************)
(* agent.ts: messages and the HTTP boundary                                *)
(***************************************************************************)
NoToolCalls == [present |-> FALSE, list |-> <<>>]
ToolCallList(list) == [present |-> TRUE, list |-> list]

ChatMessage(role, content, tool_call_id, tool_calls) ==
    [role |-> role, content |-> content, tool_call_id |-> tool_call_id,
     tool_calls |-> tool_calls]

SYSTEM_PROMPT ==
    "You are a helpful assistant for the Home Remodel Budget application."
AI_MODEL == "@cf/meta/llama-3.3-70b-instruct-fp8-fast"
DEFAULT_MAX_TOKENS == 2048

\* a registry that also advertises an operation the dispatcher lacks
agentTools_withDelete ==
    <<"clone_repository", "read_file", "write_file", "list_files",
      "commit_changes", "push_changes", "get_status", "delete_file">>

\* the names of the tool registry, in the order of agentTools
agentTools ==
    <<"clone_repository", "read_file", "write_file", "list_files",
      "commit_changes", "push_changes", "get_status">>

\* a property of an element of body.messages: its type and, for text, its value
Prop(t, v) == [t |-> t, v |-> v]

\* an element of body.messages: t is object, null or string
RawMessage(t, role, content) == [t |-> t, role |-> role, content |-> content]

RawMessages ==
    { RawMessage("object", Prop("string", "user"), Prop("string", "hello")),
      RawMessage("object", Prop("string", "tool"), Prop("string", "")),
      RawMessage("object", Prop("string", "admin"), Prop("string", "hello")),
      RawMessage("object", Prop("string", "user"), Prop("number", "")),
      RawMessage("object", Prop("undefined", ""), Prop("string", "hello")),
      RawMessage("null", Prop("undefined", ""), Prop("undefined", "")) }

BoundedSeq(S, n) == UNION {[1..k -> S] : k \in 0..n}

\* a request body: text that is not JSON, or a JSON value of type t whose
\* 'messages' property is absent, not an array, or an array of elements
Body(t, messagesType, elems) ==
    [t |-> t, messagesType |-> messagesType, elems |-> elems]

\* the bodies whose 'messages' array has at most n elements
BodiesUpTo(n) ==
    { Body("unparsable", "undefined", <<>>),
      Body("null", "undefined", <<>>),
      Body("number", "undefined", <<>>),
      Body("array", "undefined", <<>>),
      Body("object", "undefined", <<>>),
      Body("object", "string", <<>>) }
    \cup { Body("object", "array", elems) : elems \in BoundedSeq(RawMessages, n) }

\* the bodies of the requests followed through the conversation; an element
\* with the role 'tool' is left to the requests that stop at the boundary
Bodies ==
    { body \in BodiesUpTo(MaxMsgs) :
        \A i \in 1..Len(body.elems) : body.elems[i].role.v # "tool" }

\* a validation that does not look the role up among the recognized ones
isValidMessage_anyRole(msg) ==
    IF msg.t # "object" THEN FALSE
    ELSE msg.role.t = "string" /\ msg.content.t = "string"

isValidMessage(msg) ==
    IF msg.t # "object" THEN FALSE
    ELSE /\ msg.role.t = "string"
         /\ msg.role.v \in {"user", "assistant", "system", "tool"}
         /\ msg.content.t = "string"

\* b.messages.filter(isValidMessage), each kept element as a ChatMessage
filterMessages(elems) ==
    LET kept == SelectSeq(elems, isValidMessage)
    IN  [k \in 1..Len(kept) |->
            ChatMessage(kept[k].role.v, kept[k].content.v, Absent, NoToolCalls)]

\* a validation that takes a body that is no object for one without messages
validateRequestBody_lenient(body) ==
    IF body.t = "unparsable"
    THEN [threw |-> TRUE, error |-> Error("Unexpected end of JSON input"),
          messages |-> <<>>]
    ELSE IF body.messagesType # "array"
    THEN [threw |-> FALSE, error |-> Error(""), messages |-> <<>>]
    ELSE [threw |-> FALSE, error |-> Error(""),
          messages |-> filterMessages(body.elems)]

\* request.json() followed by validateRequestBody: the messages, or the
\* exception raised
validateRequestBody(body) ==
    IF body.t = "unparsable"
    THEN [threw |-> TRUE, error |-> Error("Unexpected end of JSON input"),
          messages |-> <<>>]
    ELSE IF body.t \notin {"object", "array"}
    THEN [threw |-> TRUE, error |-> Error("Invalid request body"),
          messages |-> <<>>]
    ELSE IF body.messagesType # "array"
    THEN [threw |-> FALSE, error |-> Error(""), messages |-> <<>>]
    ELSE [threw |-> FALSE, error |-> Error(""),
          messages |-> filterMessages(body.elems)]

\* the body stream once request.json() has read it
BodyUsed == Body("used", "undefined", <<>>)

NoResponse == [status |-> 0, message |-> "", error |-> Absent]

\* new Response(JSON.stringify({ message: response }))
successResponse(response) ==
    [status |-> 200, message |-> response, error |-> Absent]

\* the catch clause of handleChat
errorResponse(error) ==
    [status |-> 500,
     message |-> "I apologize, but I encountered an error processing your request. Please try again.",
     error |-> Text(errorMessage(error))]

(***************************************************************************)
(* The inference service                                                   *)
(***************************************************************************)
AIError == Error("AI: inference request failed")

\* the 'response' property of an inference result
AiTexts == {Absent, Text(""), Text("Here is what I found.")}

\* the 'tool_calls' property of an inference result
AiToolCalls ==
    {NoToolCalls} \cup {ToolCallList(l) : l \in BoundedSeq(ToolCalls, MaxCalls)}

\* the 'response' property of an inference result that carries the given
\* tool calls: the model answers in text or in tool calls, and a text next to
\* tool calls is not empty
AiTextsWith(tool_calls) ==
    IF tool_calls.present /\ Len(tool_calls.list) > 0
    THEN {Absent, Text("Let me check.")}
    ELSE AiTexts

AiResult(response, tool_calls) ==
    [received |-> TRUE, response |-> response, tool_calls |-> tool_calls]

\* no response yet
NoResult == [received |-> FALSE, response |-> Absent, tool_calls |-> NoToolCalls]

\* the argument of env.AI.run
AiRequest(msgs, tools) ==
    [model |-> AI_MODEL, messages |-> msgs, tools |-> tools,
     max_tokens |-> DEFAULT_MAX_TOKENS]

NoTools == [present |-> FALSE, list |-> <<>>]

\* fullMessages of runAgentConversation
fullMessages(msgs) ==
    <<ChatMessage("system", SYSTEM_PROMPT, Absent, NoToolCalls)>> \o msgs

\* a follow-up transcript without the synthetic assistant message
followUpMessages_noAssistant(msgs, result, toolResults) ==
    fullMessages(msgs) \o toolResults

\* followUpMessages of runAgentConversation
followUpMessages(msgs, result, toolResults) ==
    fullMessages(msgs)
    \o <<ChatMessage("assistant", "", Absent, result.tool_calls)>>
    \o toolResults

\* the test without the length: an empty list counts as tool calls
hasToolCalls_presentOnly(result) == result.tool_calls.present

\* aiResult.tool_calls && aiResult.tool_calls.length > 0
hasToolCalls(result) ==
    result.tool_calls.present /\ Len(result.tool_calls.list) > 0

\* text || fallback
textOr(o, fallback) == IF truthy(o) THEN o.text ELSE fallback

(***************************************************************************)
(* Init                                                                    *)
(***************************************************************************)
(***************************************************************************)
(* index.ts: the worker's router                                           *)
(***************************************************************************)
\* String.prototype.startsWith
startsWith(s, prefix) ==
    Len(s) >= Len(prefix) /\ SubSeq(s, 1, Len(prefix)) = prefix

Methods == {"GET", "POST", "OPTIONS", "DELETE"}

\* the segments a path is made of
Segments ==
    { <<"a", "p", "i">>, <<"h", "e", "a", "l", "t", "h">>, <<"c", "h", "a", "t">>,
      <<"p", "r", "o", "j", "e", "c", "t", "s">>, <<"a", "p", "i", "x">> }

RECURSIVE joinSegments(_)
\* '/' before each segment
joinSegments(segs) ==
    IF segs = <<>> THEN <<>>
    ELSE <<"/">> \o Head(segs) \o joinSegments(Tail(segs))

\* url.pathname: '/', or segments with or without a slash at the end
Pathnames ==
    { <<"/">> }
    \cup { joinSegments(segs) \o slash :
             segs \in BoundedSeq(Segments, MaxSegments) \ {<<>>},
             slash \in {<<>>, <<"/">>} }

Route(method, pathname) == [method |-> method, pathname |-> pathname]
NoRoute == Route("", <<>>)

\* a Response of the router: who produced it, its status, the properties of
\* its JSON body, the paths of body.endpoints, and whether it carries the
\* CORS headers
RouteResponse(handler, status, keys, endpoints, cors) ==
    [handler |-> handler, status |-> status, keys |-> keys,
     endpoints |-> endpoints, cors |-> cors]

NoRouteResponse == RouteResponse("", 0, {}, <<>>, FALSE)

handleOptions == RouteResponse("handleOptions", 200, {}, <<>>, TRUE)

\* what env.ASSETS.fetch answers: a page or an asset, or no such page
AssetsResponses ==
    { RouteResponse("ASSETS", 200, {}, <<>>, FALSE),
      RouteResponse("ASSETS", 404, {}, <<>>, FALSE) }

\* what handleChat answers, with the CORS headers added
ChatResponses ==
    { RouteResponse("handleChat", 200, {"message"}, <<>>, TRUE),
      RouteResponse("handleChat", 500, {"message", "error"}, <<>>, TRUE) }

\* the responses handleApiRequest can give
handleApiRequest(r) ==
    IF Str(r.pathname) = "/api/health"
    THEN { RouteResponse("handleApiRequest", 200,
                         {"status", "timestamp", "version"}, <<>>, TRUE) }
    ELSE IF Str(r.pathname) = "/api" \/ Str(r.pathname) = "/api/"
    THEN { RouteResponse("handleApiRequest", 200,
                         {"message", "version", "endpoints"},
                         <<"/api/health", "/api/chat", "/api/projects">>, TRUE) }
    ELSE IF Str(r.pathname) = "/api/chat" /\ r.method = "POST"
    THEN ChatResponses
    ELSE IF Str(r.pathname) = "/api/projects"
    THEN { RouteResponse("handleApiRequest", 200, {"projects"}, <<>>, TRUE) }
    ELSE { RouteResponse("handleApiRequest", 404, {"error", "path"}, <<>>, TRUE) }

\* the responses the fetch handler can give
fetch(r) ==
    IF r.method = "OPTIONS" THEN {handleOptions}
    ELSE IF startsWith(r.pathname, <<"/", "a", "p", "i", "/">>)
    THEN handleApiRequest(r)
    ELSE AssetsResponses

(***************************************************************************)
(* The sandbox 'budget-agent' as a service with a state: the working copy  *)
(* under /workspace/repo, its index, its local commits and its remote      *)
(***************************************************************************)
\* the chat requests in progress at the same time
Sessions == {1, 2}

\* getSandbox(env.Sandbox, 'budget-agent'): the sandbox of a request
sandboxOf(s) == "budget-agent"

SourcePaths ==
    {SrcDir \o "/" \o Str(ALLOWED_FILES[i]) : i \in 1..Len(ALLOWED_FILES)}

\* a file as the repository on GitHub has it
OriginFile == [content |-> <<>>, by |-> 0]

\* the tree of the repository on GitHub
OriginTree == [p \in SourcePaths |-> OriginFile]

\* files: the working copy; index: what git add staged; commits: the local
\* commits on top of the clone; pushed: how many of them origin has;
\* originUrl: the URL of the remote; clobbered: the requests an uncommitted
\* write of which another request has overwritten
SandboxState(files, index, commits, pushed, originUrl, clobbered) ==
    [files |-> files, index |-> index, commits |-> commits, pushed |-> pushed,
     originUrl |-> originUrl, clobbered |-> clobbered]

\* the sandbox after a clone by an earlier request
ClonedSandbox ==
    SandboxState(OriginTree, OriginTree, <<>>, 0, GitToolsConfig.repoUrl, {})

\* the tree of the last commit
headTree(sb) ==
    IF sb.commits = <<>> THEN OriginTree ELSE sb.commits[Len(sb.commits)].tree

\* the requests other than s whose uncommitted writes are in the files at
\* the given paths
uncommittedOf(sb, s, paths) ==
    {sb.files[p].by : p \in {q \in paths : sb.files[q] # headTree(sb)[q]}}
    \ {s, 0}

\* the git subcommand of an exec of git
gitCommand(op) ==
    IF op.method = "exec" /\ op.target = "git" /\ Len(op.argv) >= 3
    THEN op.argv[3] ELSE ""

\* the exit codes a command can end with in the given state, when the call
\* of the sandbox returns
exitCodes(sb, op) ==
    IF op.method # "exec" THEN {0}
    ELSE IF gitCommand(op) = "commit" /\ sb.index = headTree(sb) THEN {1}
    ELSE IF gitCommand(op) = "push"
            /\ sb.originUrl # authenticatedUrl(GitToolsConfig) THEN {128}
    ELSE IF gitCommand(op) = "push" THEN {0, 1}
    ELSE {0}

\* the state after request s had the operation carried out and it ended
\* with the given exit code
carriedOut(sb, s, op, exitCode) ==
    IF exitCode # 0 THEN sb
    ELSE IF op.method = "writeFile"
    THEN [sb EXCEPT !.files[op.target] = [content |-> op.data, by |-> s],
                    !.clobbered = @ \cup uncommittedOf(sb, s, {op.target})]
    ELSE IF op.method = "gitCheckout"
    THEN LET kept == SubSeq(sb.commits, 1, sb.pushed)
             fresh == IF kept = <<>> THEN OriginTree ELSE kept[Len(kept)].tree
         IN  SandboxState(fresh, fresh, kept, sb.pushed, op.argv[1],
                          sb.clobbered \cup uncommittedOf(sb, s, SourcePaths))
    ELSE IF gitCommand(op) = "add" THEN [sb EXCEPT !.index = sb.files]
    ELSE IF gitCommand(op) = "commit"
    THEN [sb EXCEPT !.commits =
              Append(@, [tree |-> sb.index, message |-> op.data, by |-> s])]
    ELSE IF gitCommand(op) = "remote" THEN [sb EXCEPT !.originUrl = op.argv[6]]
    ELSE IF gitCommand(op) = "push" THEN [sb EXCEPT !.pushed = Len(sb.commits)]
    ELSE sb

(***************************************************************************)
(* Concurrent requests, each in its tool loop                              *)
(***************************************************************************)
NoCall == ToolCall("", "", "")
NoFrame == [stage |-> "", local |-> <<>>, op |-> NoOp]

\* a request in its loop: the number of tool calls it has started, the
\* call it is executing or has executed last, the sandbox call that call
\* awaits, how the sandbox calls of that call ended, and its result
Session(started_, call, frame, ends, result) ==
    [started |-> started_, call |-> call, frame |-> frame, ends |-> ends,
     result |-> result]

NewSession == Session(0, NoCall, NoFrame, <<>>, "")

\* the tool calls the concurrent requests are made of
SessionCalls ==
    { ToolCall("call_1", "write_file", ArgsWriteIndex),
      ToolCall("call_1", "commit_changes", ArgsCommit),
      ToolCall("call_1", "push_changes", ArgsEmpty),
      ToolCall("call_1", "clone_repository", ArgsNull) }

\* no concurrent requests are modelled
SessionsIdle ==
    /\ sessions = <<>>
    /\ sandbox = ClonedSandbox

\* no request is at the router
RouteIdle ==
    /\ route = NoRoute
    /\ routeResponse = NoRouteResponse

\* no facade operation is called on its own
FacadeIdle == facadeSteps = <<>>

\* no guard function is called on its own
GuardIdle ==
    /\ guardOp = "none"
    /\ nameInput = <<>>
    /\ nameValid = <<>>
    /\ messageInput = <<>>
    /\ messageSanitized = <<>>

\* the state of a request at the given position, before anything happened
RequestAt(position) ==
    /\ pc = position
    /\ messages = <<>>
    /\ aiCalls = <<>>
    /\ aiResult = NoResult
    /\ started = 0
    /\ inflight = <<>>
    /\ toolResultMessages = <<>>
    /\ followUpResult = NoResult
    /\ sandboxLog = <<>>
    /\ failures = {}
    /\ aiFailed = 0
    /\ httpResponse = NoResponse

Init ==
    /\ request \in Bodies
    /\ GuardIdle
    /\ RouteIdle
    /\ FacadeIdle
    /\ SessionsIdle
    /\ RequestAt("start")

(***************************************************************************)
(* handleChat: from the request to the first inference call                *)
(***************************************************************************)
HandleChat ==
    /\ pc = "start"
    /\ request' = BodyUsed
    /\ LET v == validateRequestBody(request) IN
       IF v.threw
       THEN /\ httpResponse' = errorResponse(v.error)
            /\ pc' = "done"
            /\ UNCHANGED <<messages, aiCalls>>
       ELSE /\ messages' = v.messages
            /\ aiCalls' = <<AiRequest(fullMessages(v.messages),
                                      [present |-> TRUE, list |-> agentTools])>>
            /\ pc' = "ai1"
            /\ UNCHANGED httpResponse
    /\ UNCHANGED <<aiResult, started, inflight, toolResultMessages,
                   followUpResult, sandboxLog, failures, aiFailed>>
    /\ UNCHANGED unitVars

(***************************************************************************)
(* env.AI.run rejects, in either round: the exception leaves               *)
(* runAgentConversation and reaches the catch clause of handleChat         *)
(***************************************************************************)
AIFail ==
    /\ pc \in {"ai1", "ai2"}
    /\ aiFailed' = Len(aiCalls)
    /\ httpResponse' = errorResponse(AIError)
    /\ pc' = "done"
    /\ UNCHANGED <<request, messages, aiCalls, aiResult, started, inflight,
                   toolResultMessages, followUpResult, sandboxLog, failures>>
    /\ UNCHANGED unitVars

(***************************************************************************)
(* runAgentConversation: the first response arrives                        *)
(***************************************************************************)
AIRespond ==
    /\ pc = "ai1"
    /\ \E tool_calls \in AiToolCalls :
       \E response \in AiTextsWith(tool_calls) :
         LET result == AiResult(response, tool_calls) IN
         /\ aiResult' = result
         /\ IF hasToolCalls(result)
            THEN /\ pc' = "dispatch"
                 /\ UNCHANGED httpResponse
            ELSE /\ pc' = "done"
                 /\ httpResponse' = successResponse(
                        textOr(result.response,
                               "I apologize, but I could not generate a response."))
    /\ UNCHANGED <<request, messages, aiCalls, started, inflight,
                   toolResultMessages, followUpResult, sandboxLog, failures,
                   aiFailed>>
    /\ UNCHANGED unitVars

(***************************************************************************)
(* The for loop of runAgentConversation                                    *)
(***************************************************************************)
\* the tool calls started together (Promise.all over the batch)
loopMayStartNext_concurrent == TRUE

\* `await executeToolCall(...)`: the loop hands over the next tool call only
\* when the previous one has returned
loopMayStartNext == DOMAIN inflight = {}

\* a result message tagged with the id of the first call of the batch
toolResultMessage_firstId(toolCall, result) ==
    ChatMessage("tool", result, Text(aiResult.tool_calls.list[1].id),
                NoToolCalls)

\* toolResultMessages.push({role: 'tool', content: result, tool_call_id})
toolResultMessage(toolCall, result) ==
    ChatMessage("tool", result, Text(toolCall.id), NoToolCalls)

\* the step a tool call has reached: it suspends on a sandbox call, returns
\* its result to the loop, or throws through runAgentConversation to the
\* catch clause of handleChat
Settle(i, step) ==
    LET toolCall == aiResult.tool_calls.list[i] IN
    CASE step.kind = "await" ->
            /\ inflight' = [k \in (DOMAIN inflight) \cup {i} |->
                               IF k = i
                               THEN [stage |-> step.stage, local |-> step.local,
                                     op |-> step.op]
                               ELSE inflight[k]]
            /\ sandboxLog' = Append(sandboxLog, [call |-> i, op |-> step.op])
            /\ UNCHANGED <<toolResultMessages, httpResponse, pc>>
      [] step.kind = "return" ->
            /\ inflight' = [k \in (DOMAIN inflight) \ {i} |-> inflight[k]]
            /\ toolResultMessages' =
                   Append(toolResultMessages,
                          toolResultMessage(toolCall, step.text))
            /\ UNCHANGED <<sandboxLog, httpResponse, pc>>
      [] step.kind = "throw" ->
            /\ inflight' = [k \in (DOMAIN inflight) \ {i} |-> inflight[k]]
            /\ httpResponse' = errorResponse(Error(step.text))
            /\ pc' = "done"
            /\ UNCHANGED <<sandboxLog, toolResultMessages>>

\* executeToolCall depends on the tool call alone until its first sandbox
\* call: its first step, for each tool call a response can carry
firstStep == [toolCall \in ToolCalls |-> executeToolCall(toolCall)]

\* the loop calls executeToolCall for the next tool call
ExecuteToolCall ==
    /\ pc = "dispatch"
    /\ started < Len(aiResult.tool_calls.list)
    /\ loopMayStartNext
    /\ started' = started + 1
    /\ Settle(started + 1, firstStep[aiResult.tool_calls.list[started + 1]])
    /\ UNCHANGED <<request, messages, aiCalls, aiResult, followUpResult,
                   failures, aiFailed>>
    /\ UNCHANGED unitVars

\* a sandbox call returns or throws, and the tool call awaiting it resumes
SandboxReturn ==
    /\ pc = "dispatch"
    /\ \E i \in DOMAIN inflight :
         \E outcome \in SandboxOutcomes(inflight[i].op) :
            /\ failures' = IF outcome.threw THEN failures \cup {i} ELSE failures
            /\ Settle(i, resumeToolCall(aiResult.tool_calls.list[i],
                                        inflight[i], outcome))
    /\ UNCHANGED <<request, messages, aiCalls, aiResult, started,
                   followUpResult, aiFailed>>
    /\ UNCHANGED unitVars

\* a loop that is left after its first tool call
loopIsOver_afterFirst == started >= 1 /\ DOMAIN inflight = {}

\* the for loop has gone through aiResult.tool_calls
loopIsOver ==
    started = Len(aiResult.tool_calls.list) /\ DOMAIN inflight = {}

\* the loop is over: the second inference call
FollowUp ==
    /\ pc = "dispatch"
    /\ loopIsOver
    /\ aiCalls' = Append(aiCalls,
                         AiRequest(followUpMessages(messages, aiResult,
                                                    toolResultMessages),
                                   NoTools))
    /\ pc' = "ai2"
    /\ UNCHANGED <<request, messages, aiResult, started, inflight,
                   toolResultMessages, followUpResult, sandboxLog, failures,
                   aiFailed, httpResponse>>
    /\ UNCHANGED unitVars

\* the 'tool_calls' property of the second response: the model may ask for
\* tools again although the second request offers none
FollowUpToolCalls ==
    {NoToolCalls,
     ToolCallList(<<ToolCall("call_3", "write_file", ArgsWriteIndex)>>)}

\* a conversation that goes back to the loop when the second response
\* carries tool calls
followUpReturns_loop(result) ==
    IF hasToolCalls(result) THEN "dispatch" ELSE "done"

\* runAgentConversation returns after the second response, whatever the
\* response carries besides its text
followUpReturns(result) == "done"

\* the second response arrives
AIFollowUpRespond ==
    /\ pc = "ai2"
    /\ \E tool_calls \in FollowUpToolCalls :
       \E response \in AiTextsWith(tool_calls) :
         /\ followUpResult' = AiResult(response, tool_calls)
         /\ httpResponse' = successResponse(
                textOr(response, "I executed the requested operations."))
         /\ pc' = followUpReturns(followUpResult')
    /\ UNCHANGED <<request, messages, aiCalls, aiResult, started, inflight,
                   toolResultMessages, sandboxLog, failures, aiFailed>>
    /\ UNCHANGED unitVars

Next ==
    \/ HandleChat
    \/ AIFail
    \/ AIRespond
    \/ ExecuteToolCall
    \/ SandboxReturn
    \/ FollowUp
    \/ AIFollowUpRespond

Spec == Init /\ [][Next]_vars

\* the runtime runs the handler while it can take a step, and every
\* inference call and every sandbox call the handler awaits returns or fails
FairSpec == Spec /\ WF_vars(Next)

(***************************************************************************)
(* The guard functions called on their own, as the unit tests call them    *)
(***************************************************************************)
\* n copies of the character c
Fill(c, n) == [i \in 1..n |-> c]

\* 'code.js': an allow-listed name in the wrong case
code_js_lower == <<"c", "o", "d", "e", ".", "j", "s">>
dot_env == <<".", "e", "n", "v">>

\* what is put before or after a name
NameAffixes ==
    { <<>>, <<".", ".">>, <<"/">>, <<"\\">>, <<".", ".", "/">>, <<".">>,
      <<"x">>, <<" ">> }

NameAlphabet == {".", "/", "\\", "s"}

\* the arguments of validateFileName: the allow-listed names and their
\* neighbours, decorated on both sides, and every short name
FileNames ==
    { p \o a \o q : p \in NameAffixes, q \in NameAffixes,
                    a \in {Code_js, index_html, appsscript_json,
                           code_js_lower, dot_env, <<>>} }
    \cup BoundedSeq(NameAlphabet, MaxNameLen)

MessageAlphabet == {"a", "b", "<", ">", " ", "\n"}

\* 'Test <script>alert(1)</script>'
ScriptMessage ==
    <<"T", "e", "s", "t", " ", "<", "s", "c", "r", "i", "p", "t", ">",
      "a", "l", "e", "r", "t", "(", "1", ")",
      "<", "/", "s", "c", "r", "i", "p", "t", ">">>

\* the arguments of sanitizeCommitMessage: every short message, the messages
\* whose length is around the limit, and the message of the unit test
CommitMessages ==
    BoundedSeq(MessageAlphabet, MaxMessageLen)
    \cup { p \o Fill(c, MAX_COMMIT_MESSAGE - d) \o q :
             p \in BoundedSeq(MessageAlphabet, 1),
             q \in BoundedSeq(MessageAlphabet, 1),
             c \in {"a", " ", "<"}, d \in 0..MaxShortfall }
    \cup { ScriptMessage, ScriptMessage \o <<" ">>, DEFAULT_COMMIT_MESSAGE }

GuardInit ==
    /\ request = BodyUsed
    /\ RequestAt("idle")
    /\ RouteIdle
    /\ FacadeIdle
    /\ SessionsIdle
    /\ nameValid = <<>>
    /\ messageSanitized = <<>>
    /\ \/ /\ guardOp = "validateFileName"
          /\ nameInput \in FileNames
          /\ messageInput = <<>>
       \/ /\ guardOp = "sanitizeCommitMessage"
          /\ messageInput \in CommitMessages
          /\ nameInput = <<>>

\* validateFileName(nameInput) returns
ValidateFileName ==
    /\ guardOp = "validateFileName"
    /\ nameValid = <<>>
    /\ nameValid' = <<validateFileName(nameInput)>>
    /\ UNCHANGED requestVars
    /\ UNCHANGED <<guardOp, nameInput, messageInput, messageSanitized>>
    /\ UNCHANGED <<routeVars, facadeSteps, sessionVars>>

\* sanitizeCommitMessage returns: first called with messageInput, then with
\* what it returned
SanitizeCommitMessage ==
    /\ guardOp = "sanitizeCommitMessage"
    /\ Len(messageSanitized) < 2
    /\ messageSanitized' =
           Append(messageSanitized,
                  sanitizeCommitMessage(IF messageSanitized = <<>>
                                        THEN messageInput
                                        ELSE messageSanitized[1]))
    /\ UNCHANGED requestVars
    /\ UNCHANGED <<guardOp, nameInput, nameValid, messageInput>>
    /\ UNCHANGED <<routeVars, facadeSteps, sessionVars>>

GuardNext ==
    \/ ValidateFileName
    \/ SanitizeCommitMessage

GuardSpec == GuardInit /\ [][GuardNext]_vars

(***************************************************************************)
(* The facade operations that take text, called on their own and through   *)
(* the switch of executeToolCall                                           *)
(***************************************************************************)
\* the facade operations called directly
FacadeOperations == {"readAppsScriptFile", "writeAppsScriptFile", "commitChanges"}

\* the tools whose case of the switch calls them
FacadeTools == {"read_file", "write_file", "commit_changes"}

\* the content written where a file name is under test
SomeContent == <<"x">>

FacadeInit ==
    /\ request = BodyUsed
    /\ RequestAt("idle")
    /\ RouteIdle
    /\ SessionsIdle
    /\ nameValid = <<>>
    /\ messageSanitized = <<>>
    /\ facadeSteps = <<>>
    /\ \/ /\ guardOp \in {"readAppsScriptFile", "writeAppsScriptFile",
                          "read_file", "write_file"}
          /\ nameInput \in FileNames
          /\ messageInput = <<>>
       \/ /\ guardOp \in {"commitChanges", "commit_changes"}
          /\ messageInput \in CommitMessages
          /\ nameInput = <<>>

\* a facade operation is called with the text and runs to its first
\* sandbox call, its return or its exception
CallFacade ==
    /\ guardOp \in FacadeOperations
    /\ facadeSteps = <<>>
    /\ facadeSteps' =
           << CASE guardOp = "readAppsScriptFile" -> readAppsScriptFile(nameInput)
                [] guardOp = "writeAppsScriptFile" ->
                      writeAppsScriptFile(nameInput, SomeContent)
                [] guardOp = "commitChanges" -> commitChanges(messageInput) >>
    /\ UNCHANGED <<requestVars, guardVars, routeVars, sessionVars>>

\* the switch of executeToolCall is entered with the parsed arguments
\* {fileName}, {fileName, content} or {message}
DispatchTool ==
    /\ guardOp \in FacadeTools
    /\ facadeSteps = <<>>
    /\ facadeSteps' =
           << dispatchTool(
                  ToolCall("call_1", guardOp, ""),
                  CASE guardOp = "read_file" ->
                          ArgsValue("object", StringV(nameInput), Undefined,
                                    Undefined)
                    [] guardOp = "write_file" ->
                          ArgsValue("object", StringV(nameInput),
                                    StringV(SomeContent), Undefined)
                    [] guardOp = "commit_changes" ->
                          ArgsValue("object", Undefined, Undefined,
                                    StringV(messageInput))) >>
    /\ UNCHANGED <<requestVars, guardVars, routeVars, sessionVars>>

\* the sandbox call the operation awaits returns or throws
FacadeResume ==
    /\ facadeSteps # <<>>
    /\ LET last == facadeSteps[Len(facadeSteps)] IN
       /\ last.kind = "await"
       /\ \E outcome \in SandboxOutcomes(last.op) :
             facadeSteps' =
                 Append(facadeSteps,
                        IF outcome.threw THEN Throw(SandboxError)
                        ELSE resumeTool(last.stage, last.local, outcome))
    /\ UNCHANGED <<requestVars, guardVars, routeVars, sessionVars>>

FacadeNext ==
    \/ CallFacade
    \/ DispatchTool
    \/ FacadeResume

FacadeSpec == FacadeInit /\ [][FacadeNext]_vars

(***************************************************************************)
(* Concurrent chat requests in their tool loops, on the one sandbox        *)
(***************************************************************************)
SessionInit ==
    /\ request = BodyUsed
    /\ RequestAt("idle")
    /\ GuardIdle
    /\ RouteIdle
    /\ FacadeIdle
    /\ sessions = [s \in Sessions |-> NewSession]
    /\ sandbox = ClonedSandbox

\* how a sandbox call ended that threw
Threw == -1

\* a request whose tool calls wait until no other request is in the sandbox
sessionMayStart_exclusive(s) ==
    \A t \in Sessions \ {s} : sessions[t].frame = NoFrame

\* handleChat and the loop take no lock and join no queue before a tool
\* call: whether request s may start its next call does not depend on the
\* other requests
sessionMayStart(s) == TRUE

\* request s with the step its tool call has reached
settled(s, call, ends, step) ==
    IF step.kind = "await"
    THEN Session(sessions[s].started, call,
                 [stage |-> step.stage, local |-> step.local, op |-> step.op],
                 ends, "")
    ELSE Session(sessions[s].started, call, NoFrame, ends, step.text)

\* the loop of request s calls executeToolCall for its next tool call
SessionExecuteToolCall(s) ==
    /\ sessions[s].frame = NoFrame
    /\ sessions[s].started < MaxBatch
    /\ sessionMayStart(s)
    /\ \E call \in SessionCalls :
          sessions' =
              [sessions EXCEPT
                 ![s] = [settled(s, call, <<>>, executeToolCall(call))
                            EXCEPT !.started = @ + 1]]
    /\ UNCHANGED <<requestVars, guardVars, routeVars, facadeSteps, sandbox>>

\* the sandbox call request s awaits throws, or it is carried out and
\* returns, and the tool call resumes
SessionSandboxReturn(s) ==
    /\ sessions[s].frame # NoFrame
    /\ LET frame == sessions[s].frame
           call == sessions[s].call
       IN  \E outcome \in SandboxOutcomes(frame.op) :
             \E exitCode \in IF outcome.threw THEN {Threw}
                              ELSE exitCodes(sandbox, frame.op) :
                /\ sandbox' = IF outcome.threw THEN sandbox
                              ELSE carriedOut(sandbox, s, frame.op, exitCode)
                /\ sessions' =
                       [sessions EXCEPT
                          ![s] = settled(s, call,
                                         Append(sessions[s].ends, exitCode),
                                         resumeToolCall(call, frame, outcome))]
    /\ UNCHANGED <<requestVars, guardVars, routeVars, facadeSteps>>

SessionNext ==
    \E s \in Sessions :
        \/ SessionExecuteToolCall(s)
        \/ SessionSandboxReturn(s)

SessionSpec == SessionInit /\ [][SessionNext]_vars

(***************************************************************************)
(* The router: one request to the worker                                   *)
(***************************************************************************)
RouteInit ==
    /\ request = BodyUsed
    /\ RequestAt("idle")
    /\ GuardIdle
    /\ FacadeIdle
    /\ SessionsIdle
    /\ route \in {Route(m, p) : m \in Methods, p \in Pathnames}
    /\ routeResponse = NoRouteResponse

\* the fetch handler returns its Response
Fetch ==
    /\ route # NoRoute
    /\ routeResponse = NoRouteResponse
    /\ routeResponse' \in fetch(route)
    /\ UNCHANGED <<requestVars, guardVars, route, facadeSteps, sessionVars>>

RouteNext == Fetch

RouteSpec == RouteInit /\ [][RouteNext]_vars

(***************************************************************************)
(* handleChat up to the call of runAgentConversation, for bodies with      *)
(* longer 'messages' arrays                                                *)
(***************************************************************************)
BoundaryInit ==
    /\ request \in BodiesUpTo(MaxElems)
    /\ GuardIdle
    /\ RouteIdle
    /\ FacadeIdle
    /\ SessionsIdle
    /\ RequestAt("start")

BoundaryNext == HandleChat

BoundarySpec == BoundaryInit /\ [][BoundaryNext]_vars

(***************************************************************************)
(* Properties                                                              *)
(***************************************************************************)
calls == aiResult.tool_calls.list
callName(k) == calls[k].function.name
resultText(k) == toolResultMessages[k].content
\* the sandbox operations issued for tool call k
opsOf(k) == SelectSeq(sandboxLog, LAMBDA e : e.call = k)
\* the argument payload of tool call k is not JSON
unparsable(k) ==
    calls[k].function.arguments # "" /\ JSONParse(calls[k].function.arguments).threw

AllowedPaths ==
    {"/workspace/repo/appsscript/src/Code.js",
     "/workspace/repo/appsscript/src/index.html",
     "/workspace/repo/appsscript/src/appsscript.json"}

\* C1: every readFile or writeFile issued to the sandbox targets
\* /workspace/repo/appsscript/src/<name> with <name> one of Code.js,
\* index.html, appsscript.json.
C1_FileOpsOnAllowList ==
    \A k \in 1..Len(sandboxLog) :
        sandboxLog[k].op.method \in {"readFile", "writeFile"}
            => sandboxLog[k].op.target \in AllowedPaths

\* a batch that asked for '.env' or '../Code.js' first and then wrote
\* index.html
C1_Witness ==
    /\ Len(sandboxLog) = 1
    /\ sandboxLog[1].call = 2
    /\ sandboxLog[1].op.method = "writeFile"
    /\ callName(1) = "read_file"
    /\ calls[1].function.arguments \in {ArgsReadEnv, ArgsReadTraversal}

\* C2: executeToolCall never propagates an exception: every tool call that
\* is started and no longer awaits the sandbox has a text result, and a call
\* whose sandbox operation threw has the result
\* 'Error executing <name>: <message>'.
C2_NoExceptionFromExecuteToolCall ==
    /\ Len(toolResultMessages) = started - Cardinality(DOMAIN inflight)
    /\ \A k \in 1..Len(toolResultMessages) :
          toolResultMessages[k].role = "tool"
    /\ \A k \in failures :
          /\ k \notin DOMAIN inflight
          /\ k <= Len(toolResultMessages)
          /\ resultText(k) =
                "Error executing " \o callName(k)
                \o ": sandbox: container unavailable"

\* the git push of a push_changes call threw after its set-url succeeded
C2_Witness ==
    /\ failures = {1}
    /\ callName(1) = "push_changes"
    /\ Len(opsOf(1)) = 2
    /\ Len(toolResultMessages) = 1

\* C3: a tool call with an unparsable payload gets the result
\* 'Error: Invalid arguments for tool <name>', and every call after it in
\* the batch is executed: the batch is worked off to its end, and a later
\* call that needs no argument reaches the sandbox.
C3_UnparsableArgumentsDoNotAbort ==
    /\ \A k \in 1..Len(toolResultMessages) :
          unparsable(k) =>
             resultText(k) = "Error: Invalid arguments for tool " \o callName(k)
    /\ (pc \in {"ai2", "done"} /\ aiResult.received /\ Len(calls) > 0) =>
          /\ started = Len(calls)
          /\ Len(toolResultMessages) = Len(calls)
          /\ \A k \in 1..Len(calls) :
                (callName(k) \in {"clone_repository", "list_files",
                                  "push_changes", "get_status"}
                 /\ ~unparsable(k)) => Len(opsOf(k)) >= 1

\* a batch whose first call is unparsable and whose second lists the files
C3_Witness ==
    /\ pc = "ai2"
    /\ Len(calls) = 2
    /\ unparsable(1)
    /\ callName(2) = "list_files"
    /\ Len(opsOf(2)) = 1
    /\ Len(toolResultMessages) = 2

\* a batch of one tool call whose name is not in the dispatcher
oneUnknownCall ==
    /\ aiResult.received
    /\ Len(calls) = 1
    /\ callName(1) \notin DispatcherNames

\* C4 as stated: one tool call for an unknown operation name yields the
\* result 'Unknown tool: <name>', whatever its argument payload.
C4_AsStated ==
    (oneUnknownCall /\ Len(toolResultMessages) = 1) =>
        resultText(1) = "Unknown tool: " \o callName(1)

\* C4: one tool call for an unknown operation name yields 'Unknown tool:
\* <name>' when its payload parses and 'Error: Invalid arguments for tool
\* <name>' when it does not; no sandbox operation is issued, the second
\* inference round is invoked, and what it returns (or the fallback) is the
\* reply.
C4_UnknownTool ==
    oneUnknownCall =>
       /\ sandboxLog = <<>>
       /\ Len(toolResultMessages) = 1 =>
             resultText(1) =
                IF unparsable(1)
                THEN "Error: Invalid arguments for tool " \o callName(1)
                ELSE "Unknown tool: " \o callName(1)
       /\ pc \in {"ai2", "done"} =>
             /\ Len(aiCalls) = 2
             /\ Len(toolResultMessages) = 1
       /\ (pc = "done" /\ aiFailed = 0) =>
             /\ followUpResult.received
             /\ httpResponse.status = 200
             /\ httpResponse.message =
                   IF followUpResult.response.present
                      /\ followUpResult.response.text # ""
                   THEN followUpResult.response.text
                   ELSE "I executed the requested operations."

\* the unknown call with a parsable payload, answered by the second round
C4_Witness ==
    /\ oneUnknownCall
    /\ ~unparsable(1)
    /\ pc = "done"
    /\ httpResponse.message = "Here is what I found."

\* C5: a first response without tool calls (absent or empty list) ends the
\* request: the reply is its text, or the fallback when the text is absent
\* or empty; no sandbox operation and no second inference call.
C5_NoToolCalls ==
    (aiResult.received /\ (~aiResult.tool_calls.present \/ calls = <<>>)) =>
       /\ pc = "done"
       /\ httpResponse.status = 200
       /\ httpResponse.error = Absent
       /\ httpResponse.message =
             IF aiResult.response.present /\ aiResult.response.text # ""
             THEN aiResult.response.text
             ELSE "I apologize, but I could not generate a response."
       /\ sandboxLog = <<>>
       /\ started = 0
       /\ Len(aiCalls) = 1
       /\ ~followUpResult.received

\* an empty tool_calls list with an empty text: the fallback is the reply
C5_Witness ==
    /\ aiResult.received
    /\ aiResult.tool_calls.present
    /\ calls = <<>>
    /\ aiResult.response = Text("")
    /\ httpResponse.message = "I apologize, but I could not generate a response."

\* C6: the tool calls of a batch are dispatched one at a time in the order
\* of the batch: at most one call awaits the sandbox, the sandbox operations
\* are issued in call order, and an operation of call i+1 is issued only
\* when call i has its result.
C6_SequentialDispatch ==
    /\ Cardinality(DOMAIN inflight) <= 1
    /\ started <= Len(toolResultMessages) + 1
    /\ \A k \in 1..Len(sandboxLog) :
          /\ sandboxLog[k].call <= Len(toolResultMessages) + 1
          /\ k > 1 => sandboxLog[k - 1].call <= sandboxLog[k].call
    /\ \A i \in DOMAIN inflight : i = Len(toolResultMessages) + 1

\* the second call awaits the sandbox after the first, a write, has returned
C6_Witness ==
    /\ DOMAIN inflight = {2}
    /\ Len(toolResultMessages) = 1
    /\ callName(1) = "write_file"
    /\ callName(2) = "commit_changes"
    /\ Len(opsOf(1)) = 1

\* C7: every tool call is consumed once and has one tool-role result message
\* with its id: the k-th result message carries the id of the k-th call, no
\* more results than calls, and as many when the loop is over.
C7_OneResultPerCall ==
    /\ Len(toolResultMessages) <= started
    /\ started <= Len(calls)
    /\ \A k \in 1..Len(toolResultMessages) :
          /\ toolResultMessages[k].role = "tool"
          /\ toolResultMessages[k].tool_call_id = [present |-> TRUE,
                                                  text |-> calls[k].id]
    /\ (pc \in {"ai2", "done"} /\ aiResult.received) =>
          Len(toolResultMessages) = Len(calls)

\* two calls with different ids, both answered
C7_Witness ==
    /\ pc = "ai2"
    /\ Len(calls) = 2
    /\ calls[1].id # calls[2].id
    /\ Len(toolResultMessages) = 2
    /\ toolResultMessages[2].tool_call_id.text = "call_1"

\* C8: with at least one tool call the inference service is invoked a second
\* time, once, after every call has its result, without tools and with the
\* same max_tokens; its transcript is the first transcript (system prologue,
\* then the caller's messages), one assistant message with the tool calls,
\* then the results in call order.
C8_FollowUpCall ==
    /\ Len(aiCalls) <= 2
    /\ pc = "dispatch" => Len(aiCalls) = 1
    /\ Len(aiCalls) >= 1 =>
          /\ aiCalls[1].tools.present
          /\ Len(aiCalls[1].messages) = Len(messages) + 1
          /\ aiCalls[1].messages[1].role = "system"
          /\ \A k \in 1..Len(messages) : aiCalls[1].messages[k + 1] = messages[k]
    /\ Len(aiCalls) = 2 =>
          /\ aiResult.received /\ Len(calls) > 0
          /\ Len(toolResultMessages) = Len(calls)
    /\ (aiResult.received /\ Len(calls) > 0 /\ pc \in {"ai2", "done"}) =>
          LET first == aiCalls[1].messages
              second == aiCalls[2].messages
              n == Len(first)
          IN  /\ Len(aiCalls) = 2
              /\ ~aiCalls[2].tools.present
              /\ aiCalls[2].max_tokens = aiCalls[1].max_tokens
              /\ aiCalls[2].model = aiCalls[1].model
              /\ Len(second) = n + 1 + Len(calls)
              /\ \A k \in 1..n : second[k] = first[k]
              /\ second[n + 1].role = "assistant"
              /\ second[n + 1].content = ""
              /\ second[n + 1].tool_calls = [present |-> TRUE, list |-> calls]
              /\ \A k \in 1..Len(calls) :
                    /\ second[n + 1 + k] = toolResultMessages[k]
                    /\ second[n + 1 + k].role = "tool"
                    /\ second[n + 1 + k].tool_call_id.text = calls[k].id

\* the second call is made for a caller message and a batch of two
C8_Witness ==
    /\ Len(aiCalls) = 2
    /\ Len(messages) = 1
    /\ Len(calls) = 2
    /\ Len(aiCalls[2].messages) = 5

Apology ==
    "I apologize, but I encountered an error processing your request. Please try again."

replyOr(o, fallback) == IF o.present /\ o.text # "" THEN o.text ELSE fallback

C9_Envelope ==
    /\ (pc = "done") <=> (httpResponse.status # 0)
    /\ httpResponse.status \in {0, 200, 500}
    /\ httpResponse.status = 200 => ~httpResponse.error.present
    /\ httpResponse.status = 500 =>
          /\ httpResponse.message = Apology
          /\ httpResponse.error.present
          /\ httpResponse.error.text # ""

C9_Step ==
    /\ pc = "start" =>
          httpResponse' =
             CASE request.t = "unparsable" ->
                    [status |-> 500, message |-> Apology,
                     error |-> [present |-> TRUE,
                                text |-> "Unexpected end of JSON input"]]
               [] request.t \in {"null", "number"} ->
                    [status |-> 500, message |-> Apology,
                     error |-> [present |-> TRUE,
                                text |-> "Invalid request body"]]
               [] OTHER -> [status |-> 0, message |-> "", error |-> Absent]
    /\ aiFailed' # aiFailed =>
          httpResponse' =
             [status |-> 500, message |-> Apology,
              error |-> [present |-> TRUE,
                         text |-> "AI: inference request failed"]]
    /\ (pc = "ai1" /\ pc' = "done" /\ aiFailed' = 0) =>
          httpResponse' =
             [status |-> 200,
              message |-> replyOr(aiResult'.response,
                                  "I apologize, but I could not generate a response."),
              error |-> Absent]
    /\ (pc = "ai2" /\ pc' = "done" /\ aiFailed' = 0) =>
          httpResponse' =
             [status |-> 200,
              message |-> replyOr(followUpResult'.response,
                                  "I executed the requested operations."),
              error |-> Absent]
    /\ pc = "dispatch" => httpResponse' = httpResponse
    /\ httpResponse.status # 0 => httpResponse' = httpResponse

\* C9: every chat request yields one well-formed response: {message} with
\* the reply when the orchestrator returns; status 500 with the apology in
\* 'message' and the error's description in 'error' when the body is not
\* JSON, is no object, or the orchestrator throws.  The response is set when
\* the request ends, not before, and it is not changed afterwards.
C9_OneWellFormedResponse == []C9_Envelope /\ [][C9_Step]_vars

\* a body that is JSON but no object is answered with status 500
C9_Witness ==
    /\ pc = "done"
    /\ aiCalls = <<>>
    /\ httpResponse.status = 500
    /\ httpResponse.error.text = "Invalid request body"

hasEscape(name) ==
    \E i \in 1..Len(name) :
        \/ name[i] \in {"/", "\\"}
        \/ i < Len(name) /\ name[i] = "." /\ name[i + 1] = "."

\* validateFileName has returned
nameChecked == guardOp = "validateFileName" /\ nameValid # <<>>

\* C11: for every name that contains '..', '/' or '\', validateFileName
\* returns false, also when the name ends in or contains an allow-listed name.
C11_EscapesRejected ==
    (nameChecked /\ hasEscape(nameInput)) => nameValid = <<FALSE>>

\* '../Code.js' was rejected
C11_Witness ==
    /\ nameChecked
    /\ nameInput = <<".", ".", "/">> \o Code_js
    /\ nameValid = <<FALSE>>

\* C12: validateFileName returns a boolean, and it returns true exactly for
\* the names 'Code.js', 'index.html' and 'appsscript.json', spelled in this
\* case, and false for every other name.
C12_ExactlyTheAllowList ==
    nameChecked =>
        /\ nameValid[1] \in BOOLEAN
        /\ nameValid[1] <=>
               Str(nameInput) \in {"Code.js", "index.html", "appsscript.json"}

\* 'appsscript.json' was accepted
C12_Witness ==
    /\ nameChecked
    /\ Str(nameInput) = "appsscript.json"
    /\ nameValid = <<TRUE>>

(***************************************************************************)
(* The guard functions: sanitizeCommitMessage                              *)
(***************************************************************************)
\* sanitizeCommitMessage(messageInput) has returned
messageDone == guardOp = "sanitizeCommitMessage" /\ messageSanitized # <<>>

AngleBrackets == {"<", ">"}

\* the text spells 'Update Apps Script files'
isDefault(text) == Len(text) = 24 /\ Str(text) = "Update Apps Script files"

\* every character of the text is neither an angle bracket nor white space
isClean(text) ==
    \A i \in 1..Len(text) : text[i] \notin AngleBrackets \cup WhiteSpace

\* C13: the output of sanitizeCommitMessage is never longer than 500 units,
\* and it is exactly 500 units long when the input is longer than 500 units
\* and holds no angle bracket and no white space.
C13_LengthAtMost500 ==
    messageDone =>
        /\ Len(messageSanitized[1]) <= 500
        /\ (Len(messageInput) > 500 /\ isClean(messageInput)) =>
               Len(messageSanitized[1]) = 500

\* a clean message of more than 500 units was cut to 500
C13_Witness ==
    /\ messageDone
    /\ Len(messageInput) > 500
    /\ isClean(messageInput)
    /\ Len(messageSanitized[1]) = 500

\* C14: the output of sanitizeCommitMessage contains no '<' and no '>'.
C14_NoAngleBrackets ==
    messageDone =>
        \A i \in 1..Len(messageSanitized[1]) :
            messageSanitized[1][i] \notin AngleBrackets

\* a message with both brackets in it was sanitized and something is left
C14_Witness ==
    /\ messageDone
    /\ \E i \in 1..Len(messageInput) : messageInput[i] = "<"
    /\ \E i \in 1..Len(messageInput) : messageInput[i] = ">"
    /\ ~isDefault(messageSanitized[1])

\* the first 500 units of the input are angle brackets and white space only
leavesNothing ==
    \A i \in 1..Len(messageInput) :
        i <= 500 => messageInput[i] \in AngleBrackets \cup WhiteSpace

\* C15: sanitizeCommitMessage never returns the empty text; when cutting,
\* stripping the brackets and trimming leave nothing (empty input, white
\* space only, angle brackets and white space only) it returns
\* 'Update Apps Script files'.
C15_NeverEmpty ==
    messageDone =>
        /\ messageSanitized[1] # <<>>
        /\ leavesNothing => isDefault(messageSanitized[1])

\* brackets and white space only, and the default came back
C15_Witness ==
    /\ messageDone
    /\ leavesNothing
    /\ \E i \in 1..Len(messageInput) : messageInput[i] \in AngleBrackets
    /\ \E i \in 1..Len(messageInput) : messageInput[i] \in WhiteSpace
    /\ isDefault(messageSanitized[1])

\* the positions among the first 500 of the input that hold a character the
\* output keeps whatever surrounds it
inkOfInput ==
    {i \in 1..Len(messageInput) :
        i <= 500 /\ messageInput[i] \notin AngleBrackets \cup WhiteSpace}

\* the text is the reference output: of the first 500 units, what lies between the first
\* and the last kept character, without its angle brackets; the default when
\* there is no such character
isReference(text) ==
    IF inkOfInput = {} THEN isDefault(text)
    ELSE LET first == CHOOSE i \in inkOfInput : \A j \in inkOfInput : i <= j
             last == CHOOSE i \in inkOfInput : \A j \in inkOfInput : j <= i
         IN  text = SelectSeq(SubSeq(messageInput, first, last),
                              LAMBDA c : c \notin AngleBrackets)

\* C16: the output of sanitizeCommitMessage is the reference: the first 500
\* units of the input, without '<' and '>', trimmed, or the default if that
\* is empty; it has no white space at either end, and
\* 'Test <script>alert(1)</script>' gives 'Test scriptalert(1)/script'.
C16_EqualsReference ==
    messageDone =>
        /\ isReference(messageSanitized[1])
        /\ messageSanitized[1][1] \notin WhiteSpace
        /\ messageSanitized[1][Len(messageSanitized[1])] \notin WhiteSpace
        /\ messageInput = ScriptMessage =>
               Str(messageSanitized[1]) = "Test scriptalert(1)/script"

\* the message of the scenario was sanitized
C16_Witness ==
    /\ messageDone
    /\ messageInput = ScriptMessage
    /\ Str(messageSanitized[1]) = "Test scriptalert(1)/script"

\* C17: sanitizeCommitMessage is idempotent: sanitizing its output gives
\* that output again.
C17_Idempotent ==
    (guardOp = "sanitizeCommitMessage" /\ Len(messageSanitized) = 2) =>
        messageSanitized[2] = messageSanitized[1]

\* the first call changed the message and the second call has returned
C17_Witness ==
    /\ guardOp = "sanitizeCommitMessage"
    /\ Len(messageSanitized) = 2
    /\ messageSanitized[1] # messageInput
    /\ messageSanitized[1] # DEFAULT_COMMIT_MESSAGE
    /\ messageSanitized[2] = messageSanitized[1]

(***************************************************************************)
(* Validation errors of the tool calls                                     *)
(***************************************************************************)
\* the file name tool call k carries as text when that name fails the guard,
\* and "" otherwise
rejectedName(k) ==
    CASE calls[k].function.arguments = ArgsReadTraversal -> "../Code.js"
      [] calls[k].function.arguments = ArgsReadEnv -> ".env"
      [] calls[k].function.arguments = ArgsWriteSlash -> "src/Code.js"
      [] OTHER -> ""

\* tool call k has been started and is not waiting for the sandbox
returned(k) == k <= started /\ k \notin DOMAIN inflight

\* C18: a read_file or write_file call whose file name fails the guard gets
\* the tool result 'Error executing <tool>: Invalid file name: <name>.
\* Allowed files: Code.js, index.html, appsscript.json'; the call returns
\* with that result (nothing is thrown past executeToolCall), and no sandbox
\* operation, so no readFile and no writeFile, is issued for it.
C18_BadFileNameIsAToolResult ==
    aiResult.received =>
        \A k \in 1..Len(calls) :
            (callName(k) \in {"read_file", "write_file"} /\ rejectedName(k) # "") =>
                /\ opsOf(k) = <<>>
                /\ k \notin DOMAIN inflight
                /\ k \notin failures
                /\ returned(k) =>
                      /\ k <= Len(toolResultMessages)
                      /\ toolResultMessages[k].role = "tool"
                      /\ resultText(k) =
                            "Error executing " \o callName(k)
                            \o ": Invalid file name: " \o rejectedName(k)
                            \o ". Allowed files: Code.js, index.html, appsscript.json"

\* write_file for 'src/Code.js' was refused, the read_file after it reached
\* the sandbox, and the request was answered
C18_Witness ==
    /\ aiResult.received
    /\ Len(calls) = 2
    /\ callName(1) = "write_file"
    /\ rejectedName(1) = "src/Code.js"
    /\ callName(2) = "read_file"
    /\ Len(opsOf(2)) = 1
    /\ Len(sandboxLog) = 1
    /\ pc = "done"
    /\ httpResponse.status = 200

\* the result of tool call k when an argument it needs is missing or is not
\* text, and "" otherwise
typeError(k) ==
    CASE callName(k) = "read_file"
         /\ calls[k].function.arguments \in {ArgsReadNumber, ArgsObject} ->
            "Error: fileName must be a string"
      [] callName(k) = "write_file"
         /\ calls[k].function.arguments \in {ArgsWriteNumber, ArgsReadCode} ->
            "Error: fileName and content must be strings"
      [] callName(k) = "commit_changes"
         /\ calls[k].function.arguments \in {ArgsCommitNumber, ArgsNull} ->
            "Error: message must be a string"
      [] OTHER -> ""

\* C19: a read_file, write_file or commit_changes call whose fileName,
\* content or message is missing or is not text gets an error string as its
\* result, and no sandbox operation is issued for it.
C19_ArgumentTypesChecked ==
    aiResult.received =>
        \A k \in 1..Len(calls) :
            typeError(k) # "" =>
                /\ opsOf(k) = <<>>
                /\ k \notin DOMAIN inflight
                /\ returned(k) =>
                      /\ k <= Len(toolResultMessages)
                      /\ resultText(k) = typeError(k)

\* a write_file without content and a read_file whose fileName is a number
\* were both answered with their error strings, and the sandbox was not used
C19_Witness ==
    /\ aiResult.received
    /\ Len(calls) = 2
    /\ callName(1) = "write_file"
    /\ calls[1].function.arguments = ArgsReadCode
    /\ callName(2) = "read_file"
    /\ calls[2].function.arguments = ArgsReadNumber
    /\ Len(toolResultMessages) = 2
    /\ resultText(1) = "Error: fileName and content must be strings"
    /\ resultText(2) = "Error: fileName must be a string"
    /\ sandboxLog = <<>>
    /\ pc = "done"

(***************************************************************************)
(* The HTTP boundary                                                       *)
(***************************************************************************)
RecognizedRoles == {"user", "assistant", "system", "tool"}

\* the element is an object with a recognized role and text content
wellFormed(e) ==
    /\ e.t = "object"
    /\ e.role.t = "string"
    /\ e.role.v \in RecognizedRoles
    /\ e.content.t = "string"

RECURSIVE wellFormedOf(_)
\* the well-formed elements of the array, in their order, as role and content
wellFormedOf(elems) ==
    IF elems = <<>> THEN <<>>
    ELSE (IF wellFormed(Head(elems))
          THEN <<[role |-> Head(elems).role.v, content |-> Head(elems).content.v]>>
          ELSE <<>>) \o wellFormedOf(Tail(elems))

\* role and content of each message
roleAndContent(msgs) ==
    [k \in 1..Len(msgs) |-> [role |-> msgs[k].role, content |-> msgs[k].content]]

\* handleChat reads a body that is a JSON object (an array counts as one)
C20_ObjectBody == pc = "start" /\ request.t \in {"object", "array"}

\* what C20 says of the step that reads such a body
C20_Step ==
    C20_ObjectBody =>
        LET expected == IF request.messagesType = "array"
                        THEN wellFormedOf(request.elems) ELSE <<>>
        IN  /\ pc' = "ai1"
            /\ httpResponse' = NoResponse
            /\ roleAndContent(messages') = expected
            /\ Len(aiCalls') = 1
            /\ roleAndContent(Tail(aiCalls'[1].messages)) = expected

\* C20: the messages handleChat passes to runAgentConversation are exactly
\* the elements of body.messages that have a recognized role and text
\* content, in their original order, and the request does not fail for the
\* others; when 'messages' is absent or is no array the list is empty and
\* the request does not fail either.
C20_MalformedElementsDropped == [][C20_Step]_vars

\* the tool message and the user message arrived in this order
C20_Witness ==
    /\ pc = "ai1"
    /\ roleAndContent(messages) =
           <<[role |-> "tool", content |-> ""],
             [role |-> "user", content |-> "hello"]>>
    /\ Len(aiCalls[1].messages) = 3

(***************************************************************************)
(* The router                                                              *)
(***************************************************************************)
\* the capability listing {message, version, endpoints[]}
isListing(response) ==
    /\ response.status = 200
    /\ response.keys = {"message", "version", "endpoints"}
    /\ Len(response.endpoints) = 3

\* C21: a GET request to the path '/api' is answered by the worker with the
\* capability listing {message, version, endpoints[]}.
C21_AsStated ==
    (route.method = "GET" /\ Str(route.pathname) = "/api"
     /\ routeResponse # NoRouteResponse) =>
        /\ routeResponse.handler = "handleApiRequest"
        /\ isListing(routeResponse)

(***************************************************************************)
(* The facade operations and their guard                                   *)
(***************************************************************************)
\* the steps of the operation under test that suspend on `git commit`
commitSteps ==
    {i \in 1..Len(facadeSteps) :
        facadeSteps[i].kind = "await" /\ gitCommand(facadeSteps[i].op) = "commit"}

failsGuard ==
    Str(nameInput) \notin {"Code.js", "index.html", "appsscript.json"}

\* the exception of the guard for the name under test
invalidFileName ==
    [kind |-> "throw",
     text |-> "Invalid file name: " \o Str(nameInput)
              \o ". Allowed files: Code.js, index.html, appsscript.json",
     stage |-> "", local |-> <<>>, op |-> NoOp]

betweenCalls(s) ==
    sessions[s].frame = NoFrame /\ sessions[s].started < MaxBatch

\* the sandbox call request s awaits works on /workspace/repo
inSharedDirectory(s) ==
    LET op == sessions[s].frame.op IN
    CASE op.method = "exec" -> op.argv[1] = "-C" /\ op.argv[2] = "/workspace/repo"
      [] op.method = "gitCheckout" -> op.target = "/workspace/repo"
      [] op.method \in {"readFile", "writeFile"} ->
            op.target \in SourcePaths
      [] OTHER -> FALSE

\* C24: two concurrent chat requests are neither locked out, queued nor
\* isolated: a request between two tool calls can always start its next
\* call, whatever the other request is doing; both use the sandbox
\* 'budget-agent', and every sandbox call of either works on the one
\* directory /workspace/repo.
C24_NoLockingNoIsolation ==
    sessions # <<>> =>
        \A s \in Sessions :
            /\ sandboxOf(s) = "budget-agent"
            /\ betweenCalls(s) => ENABLED SessionExecuteToolCall(s)
            /\ sessions[s].frame # NoFrame => inSharedDirectory(s)

\* an uncommitted write of request 1 was overwritten by request 2, and the
\* commit_changes of request 1 then committed the file as request 2 wrote it
C24_Witness ==
    /\ sessions # <<>>
    /\ 1 \in sandbox.clobbered
    /\ \E i \in 1..Len(sandbox.commits) :
          /\ sandbox.commits[i].by = 1
          /\ \E p \in SourcePaths : sandbox.commits[i].tree[p].by = 2

(***************************************************************************)
(* Failure of a tool call                                                  *)
(***************************************************************************)
\* the sandbox calls the facade makes on the way forward
facadeCall(op) ==
    \/ op.method \in {"gitCheckout", "readFile", "writeFile"}
    \/ op.method = "exec" /\ gitCommand(op) \in {"add", "commit", "remote", "push", "status"}

\* the sandbox call request s awaited ends in this step other than with
\* exit code 0
sandboxCallFails(s) ==
    /\ sessions[s].frame # NoFrame
    /\ sessions'[s].ends = Append(sessions[s].ends, Threw)
       \/ \E exitCode \in {1, 128} :
             sessions'[s].ends = Append(sessions[s].ends, exitCode)

\* the tool call of request s ends in this step with the text of the catch
\* clause
toolCallFails(s) ==
    /\ sessions[s].frame # NoFrame
    /\ sessions'[s].frame = NoFrame
    /\ sessions'[s].result =
          "Error executing " \o sessions[s].call.function.name \o ": "
             \o errorMessage(SandboxError)

reportedPushed(s) ==
    /\ sessions[s].call.function.name = "push_changes"
    /\ sessions[s].frame = NoFrame
    /\ sessions[s].result =
          "Changes pushed to GitHub. This will trigger the Apps Script deployment workflow."

\* C29: whenever the result of push_changes is 'Changes pushed to GitHub.
\* ...', git remote set-url ran first, git push ran after it, and the push
\* succeeded (both commands ended with exit code 0).
C29_AsStated ==
    sessions # <<>> =>
        \A s \in Sessions : reportedPushed(s) => sessions[s].ends = <<0, 0>>

(***************************************************************************)
(* The tool registry and the dispatcher                                    *)
(***************************************************************************)
registered(name) == \E i \in 1..Len(agentTools) : agentTools[i] = name

\* C28: the names of agentTools are the names the dispatcher handles, and
\* agentTools is what the first inference call advertises; a tool call
\* with a registered name never has the result 'Unknown tool: <name>', and
\* a tool call with any other name never causes a sandbox call.
C28_RegistryMatchesDispatcher ==
    /\ {agentTools[i] : i \in 1..Len(agentTools)} = DispatcherNames
    /\ aiCalls # <<>> => aiCalls[1].tools = [present |-> TRUE, list |-> agentTools]
    /\ aiResult.received =>
          \A k \in 1..Len(calls) :
              /\ (registered(callName(k)) /\ k <= Len(toolResultMessages)) =>
                    resultText(k) # "Unknown tool: " \o callName(k)
              /\ ~registered(callName(k)) => opsOf(k) = <<>>

\* a batch of an unregistered and a registered name, both executed: the
\* first answered 'Unknown tool', the second went to the sandbox
C28_Witness ==
    /\ aiResult.received
    /\ Len(calls) = 2
    /\ Len(toolResultMessages) = 2
    /\ callName(1) = "delete_file"
    /\ resultText(1) = "Unknown tool: delete_file"
    /\ opsOf(1) = <<>>
    /\ callName(2) = "get_status"
    /\ Len(opsOf(2)) = 1
    /\ resultText(2) = "No changes"

(***************************************************************************)
(* One batch of tool calls                                                 *)
(***************************************************************************)
\* what the loop over the tool calls has done
dispatched == <<started, inflight, sandboxLog, toolResultMessages, failures>>

\* C27: tool calls are dispatched only from the first inference response
\* and in at most one batch: the loop is entered only on the first
\* response, it runs over the tool calls of that response, and from the
\* second inference call on nothing is handed to executeToolCall and no
\* sandbox call is made, whatever tool calls the second response carries.
C27_OneDispatchBatch ==
    [][/\ (pc' = "dispatch" /\ pc # "dispatch") =>
              pc = "ai1" /\ hasToolCalls(aiResult') /\ started' = 0
       /\ pc = "dispatch" =>
              /\ aiResult' = aiResult
              /\ started' <= Len(calls)
              /\ \A e \in 1..Len(sandboxLog') :
                    sandboxLog'[e].call \in 1..started'
       /\ pc \in {"ai2", "done"} =>
              /\ pc' \in {"ai2", "done"}
              /\ dispatched' = dispatched
              /\ aiResult' = aiResult]_vars

\* the second response asks for write_file after a batch of one read-only
\* call; the request has ended and write_file was not executed
C27_Witness ==
    /\ pc = "done"
    /\ followUpResult.received
    /\ hasToolCalls(followUpResult)
    /\ followUpResult.tool_calls.list[1].function.name = "write_file"
    /\ Len(calls) = 1
    /\ callName(1) = "get_status"
    /\ started = 1
    /\ Len(toolResultMessages) = 1
    /\ Len(sandboxLog) = 1
    /\ Len(aiCalls) = 2
    /\ aiCalls[2].tools = NoTools

(***************************************************************************)
(* The conversation as a state machine                                     *)
(***************************************************************************)
\* positions of runAgentConversation: Awaiting-Model is ai1,
\* Dispatching-Tools is dispatch, Awaiting-Follow-up is ai2, and done is
\* terminal
C26_Counts ==
    /\ Len(aiCalls) <= 2
    /\ pc = "ai1" => Len(aiCalls) = 1 /\ started = 0
    /\ pc = "dispatch" => Len(aiCalls) = 1 /\ hasToolCalls(aiResult)
    /\ pc = "ai2" => Len(aiCalls) = 2
    /\ (pc \in {"ai2", "done"} /\ hasToolCalls(aiResult)) =>
          /\ Len(aiCalls) = 2
          /\ started = Len(calls)
          /\ Len(toolResultMessages) = Len(calls)
    /\ (pc = "done" /\ ~hasToolCalls(aiResult)) =>
          /\ Len(aiCalls) <= 1
          /\ started = 0
    /\ pc = "done" =>
          \/ httpResponse.status = 200 /\ ~httpResponse.error.present
          \/ httpResponse.status = 500 /\ httpResponse.error.present

C26_Step ==
    /\ pc = "ai1" => pc' \in {"ai1", "dispatch", "done"}
    /\ (pc = "ai1" /\ pc' = "done" /\ aiFailed' = 0) => ~hasToolCalls(aiResult')
    /\ pc = "dispatch" => pc' \in {"dispatch", "ai2"}
    /\ pc = "ai2" => pc' \in {"ai2", "done"}
    /\ pc = "done" => pc' = "done"
    /\ started' \in {started, started + 1}

\* C26: the conversation is a machine of three states and a terminal one:
\* Awaiting-Model ends the request or goes to Dispatching-Tools, which goes
\* to Awaiting-Follow-up, which ends the request.  A first response with n
\* tool calls is followed by exactly n calls of executeToolCall and one
\* more inference call, two at most in all, and the request ends with the
\* reply or the error envelope.  Every request terminates, given that
\* every inference call and every sandbox call returns or fails.
C26_StateMachine ==
    /\ []C26_Counts
    /\ [][C26_Step]_vars
    /\ <>(pc = "done" /\ httpResponse # NoResponse)

\* a request that went through all three states with a batch of two tool
\* calls, one of whose sandbox calls threw, and ended with the reply
C26_Witness ==
    /\ pc = "done"
    /\ Len(aiCalls) = 2
    /\ Len(calls) = 2
    /\ started = 2
    /\ failures = {1}
    /\ Len(sandboxLog) >= 3
    /\ followUpResult.received
    /\ httpResponse.status = 200

====
